---------------------------- MODULE Spec2Model ----------------------------
(***************************************************************************)
(* Photo Watermark 2: the batch-export editor (src/app/main.py) and the    *)
(* compositing / resize / encode functions (src/app/watermarking.py).      *)
(*                                                                         *)
(* Strings are sequences of one-character strings, so that dirname, stem,  *)
(* upper() and concatenation are computed as the library computes them.    *)
(***************************************************************************)
EXTENDS Integers, Sequences, FiniteSets, TLC

(***************************************************************************)
(* Bounds of the model.                                                    *)
(***************************************************************************)
MaxImages == 2
\* largest width and height of a source image
MaxDim == 3
\* how many times resize_for_export is re-applied to its own output
MaxRepeat == 2
\* how many times the same source image is rendered in a row
MaxRenders == 3
\* how many handlers of the style controls and templates run in a session
MaxEdits == 3

(***************************************************************************)
(* Strings.                                                                *)
(***************************************************************************)
EmptyStr == << >>

Max2(a, b) == IF a >= b THEN a ELSE b
Min2(a, b) == IF a <= b THEN a ELSE b

\* str.upper() on the letters the model uses
UpperChar(c) ==
    CASE c = "p" -> "P" [] c = "n" -> "N" [] c = "g" -> "G"
      [] c = "j" -> "J" [] c = "e" -> "E"
      [] OTHER -> c

Upper(s) == [i \in 1..Len(s) |-> UpperChar(s[i])]

\* str.rfind(c): the last index of c in s, 0 when absent (1-based)
RFind(s, c) ==
    LET hits == {i \in 1..Len(s) : s[i] = c}
    IN  IF hits = {} THEN 0 ELSE CHOOSE i \in hits : \A j \in hits : j <= i

RECURSIVE RStripSlash(_)
RStripSlash(s) ==
    IF s # EmptyStr /\ s[Len(s)] = "/" THEN RStripSlash(SubSeq(s, 1, Len(s) - 1))
    ELSE s

\* os.path.dirname (posixpath): the head up to the last "/", trailing
\* slashes stripped unless the head is all slashes
dirname(p) ==
    LET head == SubSeq(p, 1, RFind(p, "/"))
    IN  IF head # EmptyStr /\ \E i \in 1..Len(head) : head[i] # "/"
        THEN RStripSlash(head)
        ELSE head

\* os.path.basename / pathlib name: the final path component
basename(p) == SubSeq(p, RFind(p, "/") + 1, Len(p))

\* pathlib.Path(p).suffix: from the last "." of the name, when that dot is
\* neither the first nor the last character of the name
suffix(p) ==
    LET name == basename(p)
        i == RFind(name, ".")
    IN  IF 1 < i /\ i < Len(name) THEN SubSeq(name, i, Len(name)) ELSE EmptyStr

\* pathlib.Path(p).stem: the name without its suffix
stem(p) ==
    LET name == basename(p)
    IN  SubSeq(name, 1, Len(name) - Len(suffix(p)))

\* os.path.join(d, name) for a relative name
join(d, name) ==
    IF d = EmptyStr \/ d[Len(d)] = "/" THEN d \o name ELSE d \o <<"/">> \o name

(***************************************************************************)
(* The paths and strings the inputs are drawn from.                        *)
(***************************************************************************)
Dir_ab  == <<"/", "a", "/", "b">>
Dir_c   == <<"/", "c">>
Dir_out == <<"/", "o", "u", "t">>

Img1Png == Dir_ab \o <<"/", "i", "m", "g", "1", ".", "p", "n", "g">>
Img2Jpg == Dir_ab \o <<"/", "i", "m", "g", "2", ".", "j", "p", "g">>
Img1Jpg == Dir_c \o <<"/", "i", "m", "g", "1", ".", "j", "p", "g">>

SourcePaths == {Img1Png, Img2Jpg, Img1Jpg}
OutDirs == {Dir_ab, Dir_out}

LogoPath == <<"/", "l", "o", "g", "o", ".", "p", "n", "g">>

FmtPNG  == <<"P", "N", "G">>
FmtJPEG == <<"J", "P", "E", "G">>
\* values a stored record can carry besides the two the format control offers
FmtLower == <<"j", "p", "e", "g">>
FmtJPG  == <<"J", "P", "G">>

ExtPng == <<".", "p", "n", "g">>
ExtJpg == <<".", "j", "p", "g">>

DefaultPrefix == <<"w", "m", "_">>
DefaultSuffix == <<"_", "w", "a", "t", "e", "r", "m", "a", "r", "k", "e", "d">>
OtherPrefix == <<"p", "-">>
OtherSuffix == <<"-", "s">>

NoneVal == <<"None">>


(***************************************************************************)
(* State.                                                                  *)
(***************************************************************************)
VARIABLES
    \* MainWindow fields (main.py:99-131) and the two combo boxes whose
    \* current index decides which selections emit a change signal
    images, out_dir, out_format, cb_format, naming, cb_naming,
    kind, img_wm_path,
    \* the watermark files that cannot be opened (missing or corrupt); the
    \* source images are readable
    unreadable,
    \* what the last handler did: its name, the message boxes it showed, the
    \* files it wrote (in order), and the call that raised out of it
    lastOp, msgs, written, raised,
    \* the function-level harness: a source image and the last call on it
    src, call,
    \* the remaining MainWindow fields and the values their controls show
    \* (main.py:104-129, 188-283), the stored record selected in the template
    \* list, and the number of handlers run on them so far
    ed, tpl, edits

editorVars == <<images, out_dir, out_format, cb_format, naming, cb_naming,
                kind, img_wm_path, unreadable,
                lastOp, msgs, written, raised>>
callVars == <<src, call>>
styleVars == <<ed, tpl, edits>>
vars == <<images, out_dir, out_format, cb_format, naming, cb_naming,
          kind, img_wm_path, unreadable,
          lastOp, msgs, written, raised, src, call, ed, tpl, edits>>

\* no call made yet
NoCall == [fn |-> "none"]

\* a Python value is truthy unless it is None or empty
Truthy(s) == s # NoneVal /\ s # EmptyStr

(***************************************************************************)
(* Encoding and naming decisions of the export (shared by do_export and    *)
(* export_image).                                                          *)
(***************************************************************************)
\* export_image: JPEG when out_format.upper() is "JPEG", PNG otherwise
EncodedAs(fmt) == IF Upper(fmt) = FmtJPEG THEN "JPEG" ELSE "PNG"

\* do_export: the extension is .png when out_format.upper() is "PNG"
ExtOf(fmt) == IF Upper(fmt) = FmtPNG THEN ExtPng ELSE ExtJpg

\* do_export: the output name from the stem and the naming rule
OutName(st, rule) ==
    IF rule.mode = "keep" THEN st
    ELSE IF rule.mode = "prefix" THEN rule.prefix \o st
    ELSE st \o rule.suffix

\* the output keeps the extension of the source file
OutPathInherited(p) == join(out_dir, OutName(stem(p), naming) \o suffix(p))

\* do_export, lines 537-545: the path an input image is exported to
OutPath(p) == join(out_dir, OutName(stem(p), naming) \o ExtOf(out_format))

\* get_cfg: the text branch always attaches a style; any other kind builds
\* an image configuration around img_wm_path
get_cfg_of(k, wm) ==
    IF k = "text"
    THEN [kind |-> "text", has_style |-> TRUE, image_path |-> NoneVal]
    ELSE [kind |-> "image", has_style |-> FALSE, image_path |-> wm]
get_cfg == get_cfg_of(kind, img_wm_path)

\* apply_watermark raises exactly when the image branch opens a logo file
\* that cannot be read (_render_image_layer, Image.open)
RenderRaises(cfg, bad) ==
    cfg.kind = "image" /\ Truthy(cfg.image_path) /\ cfg.image_path \in bad

(***************************************************************************)
(* do_export (main.py:514-552).                                            *)
(***************************************************************************)
WarnNoImages == [level |-> "warning", what |-> "no images", cnt |-> 0]
WarnNoOutDir == [level |-> "warning", what |-> "no output directory", cnt |-> 0]
WarnSameDir  == [level |-> "warning", what |-> "output is a source directory", cnt |-> 0]
InfoDone(n)  == [level |-> "information", what |-> "exported", cnt |-> n]

\* the guard looks at the first image only
DirGuardFirstOnly == images # << >> /\ dirname(images[1]) = out_dir

\* do_export, lines 521-524: any(os.path.dirname(p) == self.out_dir ...)
DirGuard == \E i \in 1..Len(images) : dirname(images[i]) = out_dir

\* the loop of lines 526-551 from image i on; an exception leaves the loop
\* and the handler with the files written so far
RECURSIVE ExportLoop(_, _)
ExportLoop(i, acc) ==
    IF i > Len(images) THEN acc
    ELSE LET p == images[i]
         IN  IF RenderRaises(get_cfg, unreadable)
             THEN [acc EXCEPT !.raised = "apply_watermark", !.at = i]
             ELSE ExportLoop(i + 1,
                    [acc EXCEPT !.written = Append(@,
                        [path |-> OutPath(p), enc |-> EncodedAs(out_format), from |-> p]),
                                !.cnt = @ + 1])

do_export ==
    /\ lastOp' = "do_export"
    /\ IF ~ (images # << >>)
       THEN msgs' = <<WarnNoImages>> /\ written' = << >> /\ raised' = "none"
       ELSE IF ~ Truthy(out_dir)
       THEN msgs' = <<WarnNoOutDir>> /\ written' = << >> /\ raised' = "none"
       ELSE IF DirGuard
       THEN msgs' = <<WarnSameDir>> /\ written' = << >> /\ raised' = "none"
       ELSE LET r == ExportLoop(1, [written |-> << >>, cnt |-> 0, raised |-> "none", at |-> 0])
            IN  /\ written' = r.written
                /\ raised' = r.raised
                /\ msgs' = IF r.raised = "none" THEN <<InfoDone(r.cnt)>> ELSE << >>
    /\ UNCHANGED <<images, out_dir, out_format, cb_format, naming, cb_naming,
                   kind, img_wm_path, unreadable>>
    /\ UNCHANGED callVars /\ UNCHANGED styleVars


(***************************************************************************)
(* The other handlers of the editor.                                       *)
(***************************************************************************)
\* a handler other than do_export shows no message box and writes no file
Outcome(exc) == lastOp' = "edit" /\ msgs' = << >> /\ written' = << >> /\ raised' = exc

\* DraggablePreview.refresh (main.py:80-87) raises when it has an image to
\* render (one is loaded as soon as the list is not empty) and
\* apply_watermark raises
RefreshRaises(k, wm, imgs) == imgs # << >> /\ RenderRaises(get_cfg_of(k, wm), unreadable)

RECURSIVE AddEach(_, _)
AddEach(paths, acc) ==
    IF paths = << >> THEN acc
    ELSE AddEach(Tail(paths),
                 IF \E i \in 1..Len(acc) : acc[i] = Head(paths) THEN acc
                 ELSE Append(acc, Head(paths)))

\* add_paths (main.py:361-370): appends each path not yet in the list; the
\* first import selects row 0, which loads that image into the preview
\* (on_select, load_current_pil, main.py:373-384) and renders it
add_paths ==
    \E a \in SourcePaths, b \in SourcePaths :
        LET new == AddEach(<<a, b>>, images)
        IN  /\ Len(new) <= MaxImages
            /\ images' = new
            /\ Outcome(IF images = << >> /\ RefreshRaises(kind, img_wm_path, new)
                       THEN "apply_watermark" ELSE "none")
            /\ UNCHANGED <<out_dir, out_format, cb_format, naming, cb_naming,
                           kind, img_wm_path, unreadable>>
            /\ UNCHANGED callVars /\ UNCHANGED styleVars

\* pick_outdir (main.py:491-494): a cancelled dialog returns "" and changes nothing
pick_outdir ==
    \E d \in OutDirs \cup {EmptyStr} :
        /\ out_dir' = IF Truthy(d) THEN d ELSE out_dir
        /\ Outcome("none")
        /\ UNCHANGED <<images, out_format, cb_format, naming, cb_naming,
                       kind, img_wm_path, unreadable>>
        /\ UNCHANGED callVars /\ UNCHANGED styleVars

FormatItems == <<FmtPNG, FmtJPEG>>

\* set_out_format (main.py:496-497), reached through cb_format's
\* currentIndexChanged (main.py:269-270): only a changed index signals
set_out_format ==
    \E idx \in 0..1 :
        /\ idx # cb_format
        /\ cb_format' = idx
        /\ out_format' = FormatItems[idx + 1]
        /\ Outcome("none")
        /\ UNCHANGED <<images, out_dir, naming, cb_naming,
                       kind, img_wm_path, unreadable>>
        /\ UNCHANGED callVars /\ UNCHANGED styleVars

NamingMode(idx) == IF idx = 0 THEN "keep" ELSE IF idx = 1 THEN "prefix" ELSE "suffix"
NamingIndex(mode) == IF mode = "keep" THEN 0 ELSE IF mode = "prefix" THEN 1 ELSE 2

\* on_naming_change (main.py:508-511), reached through cb_naming's
\* currentIndexChanged (main.py:286-287)
on_naming_change ==
    \E idx \in 0..2 :
        /\ idx # cb_naming
        /\ cb_naming' = idx
        /\ naming' = [naming EXCEPT !.mode = NamingMode(idx)]
        /\ Outcome("none")
        /\ UNCHANGED <<images, out_dir, out_format, cb_format,
                       kind, img_wm_path, unreadable>>
        /\ UNCHANGED callVars /\ UNCHANGED styleVars

\* ed_prefix / ed_suffix textChanged (main.py:290-291)
ed_prefix_textChanged ==
    \E t \in {DefaultPrefix, OtherPrefix} :
        /\ t # naming.prefix
        /\ naming' = [naming EXCEPT !.prefix = t]
        /\ Outcome("none")
        /\ UNCHANGED <<images, out_dir, out_format, cb_format, cb_naming,
                       kind, img_wm_path, unreadable>>
        /\ UNCHANGED callVars /\ UNCHANGED styleVars

ed_suffix_textChanged ==
    \E t \in {DefaultSuffix, OtherSuffix} :
        /\ t # naming.suffix
        /\ naming' = [naming EXCEPT !.suffix = t]
        /\ Outcome("none")
        /\ UNCHANGED <<images, out_dir, out_format, cb_format, cb_naming,
                       kind, img_wm_path, unreadable>>
        /\ UNCHANGED callVars /\ UNCHANGED styleVars

\* on_kind_change (main.py:472-474), reached through cb_kind's
\* currentIndexChanged (main.py:184-186)
on_kind_change ==
    \E idx \in 0..1 :
        LET k == IF idx = 0 THEN "text" ELSE "image"
        IN  /\ idx # (IF kind = "text" THEN 0 ELSE 1)
            /\ kind' = k
            /\ Outcome(IF RefreshRaises(k, img_wm_path, images)
                       THEN "apply_watermark" ELSE "none")
            /\ UNCHANGED <<images, out_dir, out_format, cb_format, naming, cb_naming,
                           img_wm_path, unreadable>>
            /\ UNCHANGED callVars /\ UNCHANGED styleVars

\* pick_wm_image (main.py:476-480): a cancelled dialog changes nothing
pick_wm_image ==
    \E f \in {LogoPath, EmptyStr} :
        /\ img_wm_path' = IF Truthy(f) THEN f ELSE img_wm_path
        /\ Outcome(IF Truthy(f) /\ RefreshRaises(kind, f, images)
                   THEN "apply_watermark" ELSE "none")
        /\ UNCHANGED <<images, out_dir, out_format, cb_format, naming, cb_naming,
                       kind, unreadable>>
        /\ UNCHANGED callVars /\ UNCHANGED styleVars

\* the environment: the logo file is deleted or corrupted, or restored
FileChange ==
    \E f \in {LogoPath} :
        /\ unreadable' = IF f \in unreadable THEN unreadable \ {f} ELSE unreadable \cup {f}
        /\ Outcome("none")
        /\ UNCHANGED <<images, out_dir, out_format, cb_format, naming, cb_naming,
                       kind, img_wm_path>>
        /\ UNCHANGED callVars /\ UNCHANGED styleVars

(***************************************************************************)
(* Stored records (templates and the last-used record) and apply_state.    *)
(***************************************************************************)
EmptyRecord == [k \in {} |-> k]

\* a key of a stored record: absent (<< >>) or present with a value (<<v>>)
Field(key, c) == IF c = << >> THEN EmptyRecord ELSE key :> c[1]

\* dict.get(key, default)
Get(s, key, default) == IF key \in DOMAIN s THEN s[key] ELSE default

NamingRecords ==
    { Field("mode", <<"keep">>),
      Field("mode", <<"prefix">>) @@ Field("prefix", <<OtherPrefix>>) }

StoredRecords ==
    { Field("out_format", f) @@ Field("naming", n) :
        f \in {<< >>, <<FmtLower>>, <<FmtJPG>>},
        n \in {<< >>} \cup {<<r>> : r \in NamingRecords} }

(***************************************************************************)
(* Python values of a stored record.  A tuple and a list with the same     *)
(* items are different values, so each carries its type; a string is a     *)
(* sequence of characters, None is NoneVal, a whole-degree float is its    *)
(* integer.                                                                *)
(***************************************************************************)
Tup(s) == [py |-> "tuple", items |-> s]
Lst(s) == [py |-> "list", items |-> s]

\* the value is kept as it was read
PyTupleKept(x) == x

\* tuple(x)
PyTuple(x) == Tup(x.items)

\* the keys whose value collect_state takes from a tuple field
TupleKeys == {"text_color", "stroke_color", "shadow_offset", "shadow_color", "pos"}

\* json.dump followed by json.load (templates.py:12-21, 36-45): a tuple is
\* written as an array and read back as a list; strings, numbers, booleans,
\* None and the nested naming record come back as they were
json_round_trip(d) ==
    [k \in DOMAIN d |-> IF k \in TupleKeys THEN Lst(d[k].items) ELSE d[k]]

\* QAbstractSlider.setValue / QSpinBox.setValue keep the value in the range
Clamp(v, lo, hi) == IF v < lo THEN lo ELSE IF v > hi THEN hi ELSE v

\* the items of cb_scale_mode (main.py:277)
ScaleModes == {"none", "width", "height", "percent"}

\* the assignments of apply_state to the style, scale and quality fields
\* (main.py:590-611)
AppliedEd(e, s) ==
    [e EXCEPT !.text_content = Get(s, "text_content", @),
              !.text_color = PyTuple(Get(s, "text_color", @)),
              !.stroke_on = Get(s, "stroke_on", @),
              !.stroke_width = Get(s, "stroke_width", @),
              !.stroke_color = PyTuple(Get(s, "stroke_color", @)),
              !.shadow_on = Get(s, "shadow_on", @),
              !.shadow_offset = PyTuple(Get(s, "shadow_offset", @)),
              !.shadow_color = PyTuple(Get(s, "shadow_color", @)),
              !.font_path = Get(s, "font_path", @),
              !.font_size = Get(s, "font_size", @),
              !.bold = Get(s, "bold", @),
              !.italic = Get(s, "italic", @),
              !.img_wm_alpha = Get(s, "img_wm_alpha", @),
              !.img_wm_scale = Get(s, "img_wm_scale", @),
              !.angle = Get(s, "angle", @),
              !.pos = PyTuple(Get(s, "pos", @)),
              !.jpeg_quality = Get(s, "jpeg_quality", @),
              !.scale_mode = Get(s, "scale_mode", @),
              !.scale_value = Get(s, "scale_value", @)]

\* the control refresh of apply_state (main.py:618-633): each control is set
\* from its field and keeps the value in its range; a control whose value
\* changed signals its handler, which stores the control's value in the
\* field; sp_stroke_w, sp_shadow_dx and sp_shadow_dy have no handler, and
\* sl_img_alpha and sp_img_scale are not refreshed
RefreshedEd(e) ==
    LET c == e.text_color.items
        a == Clamp(c[4], 0, 255)
        fs == Clamp(e.font_size, 8, 400)
        ang == Clamp(e.angle, -180, 180)
        q == Clamp(e.jpeg_quality, 1, 100)
        sm == IF e.scale_mode \in ScaleModes THEN e.scale_mode ELSE e.cb_scale_mode
        sv == Clamp(e.scale_value, 1, 10000)
    IN  [e EXCEPT !.ed_text = e.text_content,
                  !.sp_alpha = a,
                  !.text_color = IF a # e.sp_alpha THEN Tup(<<c[1], c[2], c[3], a>>) ELSE @,
                  !.sp_fontsize = fs,
                  !.font_size = IF fs # e.sp_fontsize THEN fs ELSE @,
                  !.ck_bold = e.bold,
                  !.ck_italic = e.italic,
                  !.ck_stroke = e.stroke_on,
                  !.sp_stroke_w = Clamp(e.stroke_width, 1, 10),
                  !.ck_shadow = e.shadow_on,
                  !.sp_shadow_dx = Clamp(e.shadow_offset.items[1], -50, 50),
                  !.sp_shadow_dy = Clamp(e.shadow_offset.items[2], -50, 50),
                  !.sl_angle = ang,
                  !.angle = IF ang # e.sl_angle THEN ang ELSE @,
                  !.sl_quality = q,
                  !.jpeg_quality = IF q # e.sl_quality THEN q ELSE @,
                  !.cb_scale_mode = sm,
                  !.scale_mode = IF sm # e.cb_scale_mode THEN sm ELSE @,
                  !.sp_scale_value = sv,
                  !.scale_value = IF sv # e.sp_scale_value THEN sv ELSE @]

\* the assignments of apply_state (main.py:589-615) and the control refresh
\* that follows (main.py:618-636): setCurrentText selects an item only when
\* the text is one of the items; a changed index signals its handler, which
\* stores the value the index stands for
Applied(f, s) ==
    LET nm == Get(s, "naming", EmptyRecord)
        fmt == Get(s, "out_format", f.out_format)
        mode == Get(nm, "mode", f.naming.mode)
        k == Get(s, "kind", f.kind)
    IN  [kind |-> k,
         img_wm_path |-> Get(s, "img_wm_path", f.img_wm_path),
         out_dir |-> Get(s, "out_dir", f.out_dir),
         out_format |-> fmt,
         cb_format |-> IF fmt = FmtPNG THEN 0 ELSE IF fmt = FmtJPEG THEN 1 ELSE f.cb_format,
         naming |-> [mode |-> mode,
                     prefix |-> Get(nm, "prefix", f.naming.prefix),
                     suffix |-> Get(nm, "suffix", f.naming.suffix)],
         cb_naming |-> NamingIndex(mode)]

Fields == [kind |-> kind, img_wm_path |-> img_wm_path, out_dir |-> out_dir,
           out_format |-> out_format, cb_format |-> cb_format,
           naming |-> naming, cb_naming |-> cb_naming]

\* apply_state (main.py:587-637) as load_tpl calls it (main.py:655-660):
\* an empty record returns at once; the last statement re-renders the preview
apply_state ==
    \E s \in StoredRecords :
        LET n == IF DOMAIN s = {} THEN Fields ELSE Applied(Fields, s)
        IN  /\ kind' = n.kind
            /\ img_wm_path' = n.img_wm_path
            /\ out_dir' = n.out_dir
            /\ out_format' = n.out_format
            /\ cb_format' = n.cb_format
            /\ naming' = n.naming
            /\ cb_naming' = n.cb_naming
            /\ ed' = IF DOMAIN s = {} THEN ed ELSE RefreshedEd(AppliedEd(ed, s))
            /\ Outcome(IF DOMAIN s # {} /\ RefreshRaises(n.kind, n.img_wm_path, images)
                       THEN "apply_watermark" ELSE "none")
            /\ UNCHANGED <<images, unreadable, tpl, edits>>
            /\ UNCHANGED callVars

\* MainWindow.__init__ (main.py:99-131) before the last-used record is loaded
Defaults == [kind |-> "text", img_wm_path |-> NoneVal, out_dir |-> EmptyStr,
             out_format |-> FmtPNG, cb_format |-> 0,
             naming |-> [mode |-> "suffix", prefix |-> DefaultPrefix,
                         suffix |-> DefaultSuffix],
             cb_naming |-> 0]

(***************************************************************************)
(* Images.  An image is [mode, size, px]: px maps every position of the    *)
(* size to a pixel, a tuple of channel values.  A pixel computed by a      *)
(* resampling filter (LANCZOS resize, BICUBIC rotation by an angle that is *)
(* not a multiple of 90) is not computed here: it is the pixel Unknown, and *)
(* every operation on an Unknown pixel yields Unknown.                     *)
(***************************************************************************)
Unknown == << >>
Transparent == <<0, 0, 0, 0>>
White == <<255, 255, 255>>

Positions(size) == (0..(size[1] - 1)) \X (0..(size[2] - 1))

\* Image.new(mode, size, color)
NewImage(mode, size, color) ==
    [mode |-> mode, size |-> size, px |-> [q \in Positions(size) |-> color]]

\* Image.convert("RGBA"): an RGBA image is copied, RGB gets an opaque
\* alpha channel, L is spread over the three colour channels
ConvertPixel(mode, p) ==
    IF p = Unknown THEN Unknown
    ELSE IF mode = "RGBA" THEN p
    ELSE IF mode = "RGB" THEN <<p[1], p[2], p[3], 255>>
    ELSE <<p[1], p[1], p[1], 255>>

ConvertRGBA(img) ==
    [mode |-> "RGBA", size |-> img.size,
     px |-> [q \in Positions(img.size) |-> ConvertPixel(img.mode, img.px[q])]]

\* Pillow's rounded division by 255: ((a + 128) >> 8 + (a + 128)) >> 8
Div255(a) == (((a + 128) \div 256) + (a + 128)) \div 256
\* SHIFTFORDIV255 of AlphaComposite.c
ShiftForDiv255(a) == ((a \div 256) + a) \div 256

\* Paste.c BLEND: in1 seen through (255 - mask), in2 through mask
Blend(mask, in1, in2) == Div255(in1 * (255 - mask) + in2 * mask)

\* one pixel of Image.alpha_composite(dst, src) (AlphaComposite.c)
CompositePixel(d, s) ==
    IF d = Unknown \/ s = Unknown THEN Unknown
    ELSE IF s[4] = 0 THEN d
    ELSE LET blend == d[4] * (255 - s[4])
             outa255 == s[4] * 255 + blend
             coef1 == (s[4] * 255 * 255 * 128) \div outa255
             coef2 == 255 * 128 - coef1
             ch(c) == ShiftForDiv255(s[c] * coef1 + d[c] * coef2 + 128 * 128) \div 128
         IN  <<ch(1), ch(2), ch(3), ShiftForDiv255(outa255 + 128)>>

\* Image.alpha_composite(im1, im2) for two RGBA images of one size
alpha_composite(im1, im2) ==
    [mode |-> "RGBA", size |-> im1.size,
     px |-> [q \in Positions(im1.size) |-> CompositePixel(im1.px[q], im2.px[q])]]

\* one RGBA pixel pasted over another through the alpha of the pasted pixel
\* (paste_mask_RGBA: every channel, alpha included, is blended)
PastePixel(old, new) ==
    IF old = Unknown \/ new = Unknown THEN Unknown
    ELSE [c \in 1..4 |-> Blend(new[4], old[c], new[c])]

\* layer.paste(im, (x, y), im): im lands with its top-left corner at (x, y)
\* and is clipped against the layer; the layer keeps its size
PasteSelfMasked(layer, im, x, y) ==
    [layer EXCEPT !.px =
        [q \in Positions(layer.size) |->
            IF <<q[1] - x, q[2] - y>> \in Positions(im.size)
            THEN PastePixel(layer.px[q], im.px[<<q[1] - x, q[2] - y>>])
            ELSE layer.px[q]]]

\* Image.resize(size, LANCZOS): a copy when the size is the image's own,
\* else the size is set and the pixels are resampled
Resize(img, size) ==
    IF size = img.size THEN img
    ELSE [mode |-> img.mode, size |-> size, px |-> [q \in Positions(size) |-> Unknown]]

\* int(a / b) for b > 0: Python's int() truncates towards zero
IntDiv(a, b) == IF a >= 0 THEN a \div b ELSE -((-a) \div b)

\* ceil(d / 2 + (w + h) * sqrt(2) / 4): the far edge of a box of w x h
\* turned by 45 degrees about its centre, d being w or h
FarEdge45(d, u) ==
    CHOOSE n \in 0..(d + u + 1) :
        /\ 4 * n - 2 * d >= 0 /\ (4 * n - 2 * d) * (4 * n - 2 * d) >= 2 * u * u
        /\ ~ (4 * (n - 1) - 2 * d >= 0
              /\ (4 * (n - 1) - 2 * d) * (4 * (n - 1) - 2 * d) >= 2 * u * u)

\* Image.rotate(angle, BICUBIC, expand=1): multiples of 90 degrees are exact
\* transpositions; other angles resample onto the expanded bounding box
\* (the model turns by 0, 45, 90, 180 and 270 degrees)
Rotate(img, angle) ==
    LET w == img.size[1]
        h == img.size[2]
        a == angle % 360
    IN  IF a = 0 THEN img
        ELSE IF a = 180
        THEN [img EXCEPT !.px = [q \in Positions(<<w, h>>) |->
                                    img.px[<<w - 1 - q[1], h - 1 - q[2]>>]]]
        ELSE IF a = 90
        THEN [mode |-> img.mode, size |-> <<h, w>>,
              px |-> [q \in Positions(<<h, w>>) |-> img.px[<<w - 1 - q[2], q[1]>>]]]
        ELSE IF a = 270
        THEN [mode |-> img.mode, size |-> <<h, w>>,
              px |-> [q \in Positions(<<h, w>>) |-> img.px[<<q[2], h - 1 - q[1]>>]]]
        ELSE LET size == <<2 * FarEdge45(w, w + h) - w, 2 * FarEdge45(h, w + h) - h>>
             IN  [mode |-> img.mode, size |-> size,
                  px |-> [q \in Positions(size) |-> Unknown]]

(***************************************************************************)
(* Rendering (watermarking.py:90-161).  What the font and the logo file    *)
(* contribute is the environment env of a call: env.bbox is the box        *)
(* (x0, y0, x1, y1) the font measures for the text drawn at (0, 0) without *)
(* stroke, env.logo is << >> when the logo file cannot be read and <<img>> *)
(* when it decodes to img.  Glyphs are drawn as solid boxes: every pixel   *)
(* of the measured box is inked.                                           *)
(***************************************************************************)
InBox(q, x0, y0, x1, y1) == x0 <= q[1] /\ q[1] < x1 /\ y0 <= q[2] /\ q[2] < y1

\* _draw_text (watermarking.py:90-97) at xy = (0, 0): the shadow copy at its
\* offset first, then the stroke outline and the fill over it
_draw_text(canvas, bbox, style) ==
    LET sw == IF style.stroke THEN style.stroke_width ELSE 0
        dx == style.shadow_offset[1]
        dy == style.shadow_offset[2]
    IN  [canvas EXCEPT !.px =
            [q \in Positions(canvas.size) |->
                IF InBox(q, bbox[1], bbox[2], bbox[3], bbox[4]) THEN style.color
                ELSE IF sw > 0 /\ InBox(q, bbox[1] - sw, bbox[2] - sw, bbox[3] + sw, bbox[4] + sw)
                THEN style.stroke_color
                ELSE IF style.shadow
                        /\ InBox(q, bbox[1] + dx, bbox[2] + dy, bbox[3] + dx, bbox[4] + dy)
                THEN style.shadow_color
                ELSE canvas.px[q]]]

\* the positions _draw_text inks when it draws at xy = (0, 0) on an
\* unbounded plane: the glyph box, the stroke around it and the shadow copy
Ink(bbox, style) ==
    LET sw == IF style.stroke THEN style.stroke_width ELSE 0
        dx == style.shadow_offset[1]
        dy == style.shadow_offset[2]
        far == sw + (IF dx >= 0 THEN dx ELSE -dx) + (IF dy >= 0 THEN dy ELSE -dy)
    IN  { q \in ((bbox[1] - far)..(bbox[3] + far)) \X ((bbox[2] - far)..(bbox[4] + far)) :
            \/ InBox(q, bbox[1] - sw, bbox[2] - sw, bbox[3] + sw, bbox[4] + sw)
            \/ style.shadow
                  /\ InBox(q, bbox[1] + dx, bbox[2] + dy, bbox[3] + dx, bbox[4] + dy) }

\* _render_text_layer, lines 107-115: the size of the canvas the text is
\* drawn on, from the box measured with the stroke width
TextCanvasSize(cfg, env) ==
    LET style == cfg.text_style[1]
        sw == IF style.stroke THEN style.stroke_width ELSE 0
    IN  <<(env.bbox[3] + sw) - (env.bbox[1] - sw), (env.bbox[4] + sw) - (env.bbox[2] - sw)>>

\* abs(cfg.angle_deg) > 0.01 for the whole-degree angles of the model
Turned(angle) == angle # 0

\* the drawn text is returned as the overlay instead of being pasted on the
\* canvas-sized layer
_render_text_layer_Unpasted(base_size, cfg, env) ==
    LET layer == NewImage("RGBA", base_size, Transparent)
        style == cfg.text_style[1]
        sw == IF style.stroke THEN style.stroke_width ELSE 0
        tw == (env.bbox[3] + sw) - (env.bbox[1] - sw)
        th == (env.bbox[4] + sw) - (env.bbox[2] - sw)
        text_img == _draw_text(NewImage("RGBA", <<tw, th>>, Transparent), env.bbox, style)
    IN  IF tw <= 0 \/ th <= 0 THEN layer
        ELSE IF Turned(cfg.angle_deg) THEN Rotate(text_img, cfg.angle_deg) ELSE text_img

\* _render_text_layer (watermarking.py:100-126)
_render_text_layer(base_size, cfg, env) ==
    LET layer == NewImage("RGBA", base_size, Transparent)
        style == cfg.text_style[1]
        sw == IF style.stroke THEN style.stroke_width ELSE 0
        tw == (env.bbox[3] + sw) - (env.bbox[1] - sw)
        th == (env.bbox[4] + sw) - (env.bbox[2] - sw)
        text_img == _draw_text(NewImage("RGBA", <<tw, th>>, Transparent), env.bbox, style)
        turned == IF Turned(cfg.angle_deg) THEN Rotate(text_img, cfg.angle_deg) ELSE text_img
    IN  IF tw <= 0 \/ th <= 0 THEN layer
        ELSE PasteSelfMasked(layer, turned, cfg.pos[1], cfg.pos[2])

\* the pairs (x, image_alpha) where the float product x * (image_alpha / 255.0)
\* falls just short of the integer x * image_alpha / 255
FloatShort == {<<85, 147>>, <<170, 147>>, <<51, 155>>, <<102, 155>>, <<153, 155>>,
               <<204, 155>>, <<85, 171>>, <<170, 171>>, <<75, 187>>, <<150, 187>>,
               <<165, 187>>, <<153, 195>>}

\* the alpha of every pixel is overwritten with image_alpha
ScaleAlphaOverwrite(x, image_alpha) == image_alpha

\* int(x * (cfg.image_alpha / 255.0)) (watermarking.py:141)
ScaleAlpha(x, image_alpha) ==
    IntDiv(x * image_alpha, 255) - (IF <<x, image_alpha>> \in FloatShort THEN 1 ELSE 0)

\* _render_image_layer, lines 132-142: the logo opened, scaled and set to
\* the opacity of the configuration
LogoAtOpacity(cfg, env) ==
    LET wm0 == ConvertRGBA(env.logo[1])
        wm1 == IF cfg.scale_percent # 100
               THEN Resize(wm0, <<Max2(1, IntDiv(wm0.size[1] * cfg.scale_percent, 100)),
                                  Max2(1, IntDiv(wm0.size[2] * cfg.scale_percent, 100))>>)
               ELSE wm0
    IN  IF cfg.image_alpha < 255
        THEN [wm1 EXCEPT !.px = [q \in Positions(wm1.size) |->
                 IF wm1.px[q] = Unknown THEN Unknown
                 ELSE [wm1.px[q] EXCEPT ![4] = ScaleAlpha(@, cfg.image_alpha)]]]
        ELSE wm1

\* _render_image_layer (watermarking.py:129-149); the caller has found the
\* logo readable
_render_image_layer(base_size, cfg, env) ==
    LET layer == NewImage("RGBA", base_size, Transparent)
        wm2 == LogoAtOpacity(cfg, env)
        wm3 == IF Turned(cfg.angle_deg) THEN Rotate(wm2, cfg.angle_deg) ELSE wm2
    IN  PasteSelfMasked(layer, wm3, cfg.pos[1], cfg.pos[2])

\* the overlay apply_watermark renders, << >> when it renders none
Overlay(base_size, cfg, env) ==
    IF cfg.kind = "text" /\ cfg.text_style # << >>
    THEN <<_render_text_layer(base_size, cfg, env)>>
    ELSE IF cfg.kind = "image" /\ Truthy(cfg.image_path) /\ env.logo # << >>
    THEN <<_render_image_layer(base_size, cfg, env)>>
    ELSE << >>

\* out = Image.alpha_composite(base, layer) (watermarking.py:160), which
\* raises ValueError when the two sizes differ
Composited(base, layer) ==
    IF layer.size # base.size THEN [raised |-> "ValueError", img |-> NoneVal]
    ELSE [raised |-> "none", img |-> alpha_composite(base, layer)]

\* the image branch tests image_path against None only, so an empty path is
\* handed to Image.open, which raises
apply_watermark_PathNotNone(source, cfg, env) ==
    LET base == ConvertRGBA(source)
    IN  IF cfg.kind = "text" /\ cfg.text_style # << >>
        THEN Composited(base, _render_text_layer(base.size, cfg, env))
        ELSE IF cfg.kind = "image" /\ cfg.image_path # NoneVal
        THEN IF env.logo = << >> \/ cfg.image_path = EmptyStr
             THEN [raised |-> "Image.open", img |-> NoneVal]
             ELSE Composited(base, _render_image_layer(base.size, cfg, env))
        ELSE [raised |-> "none", img |-> base]

\* apply_watermark (watermarking.py:152-161): the image returned, or the
\* exception raised
apply_watermark(source, cfg, env) ==
    LET base == ConvertRGBA(source)
    IN  IF cfg.kind = "text" /\ cfg.text_style # << >>
        THEN Composited(base, _render_text_layer(base.size, cfg, env))
        ELSE IF cfg.kind = "image" /\ Truthy(cfg.image_path)
        THEN IF env.logo = << >>
             THEN [raised |-> "Image.open", img |-> NoneVal]
             ELSE Composited(base, _render_image_layer(base.size, cfg, env))
        ELSE [raised |-> "none", img |-> base]

\* the source is composited in place when it is RGBA already, and handed
\* back as the result
SourceAfterInPlace(source, cfg, env) ==
    LET r == apply_watermark(source, cfg, env)
    IN  IF source.mode = "RGBA" /\ r.raised = "none" THEN r.img ELSE source

\* what apply_watermark leaves of the image it was given: convert returns
\* a new image (line 153), the layer is a new image and alpha_composite
\* returns a new image (line 160), so the source is as before
SourceAfter(source, cfg, env) == source

(***************************************************************************)
(* Resizing and encoding (watermarking.py:163-187).                        *)
(***************************************************************************)
\* the early return of scale_mode none is missing: none runs into the
\* percent branch
resize_for_export_NoEarlyReturn(img, opts) ==
    LET W == img.size[1]
        H == img.size[2]
    IN  IF opts.scale_mode \in {"none", "percent"}
        THEN LET pc == Max2(1, opts.scale_value)
             IN  Resize(img, <<Max2(1, IntDiv(W * pc, 100)), Max2(1, IntDiv(H * pc, 100))>>)
        ELSE IF opts.scale_mode = "width"
        THEN LET new_w == Max2(1, opts.scale_value)
             IN  Resize(img, <<new_w, Max2(1, IntDiv(H * new_w, W))>>)
        ELSE IF opts.scale_mode = "height"
        THEN LET new_h == Max2(1, opts.scale_value)
             IN  Resize(img, <<Max2(1, IntDiv(W * new_h, H)), new_h>>)
        ELSE img

\* the derived dimension is computed from the raw scale_value instead of
\* the value raised to 1
resize_for_export_RawValue(img, opts) ==
    LET W == img.size[1]
        H == img.size[2]
    IN  IF opts.scale_mode = "none" THEN img
        ELSE IF opts.scale_mode = "percent"
        THEN LET pc == Max2(1, opts.scale_value)
             IN  Resize(img, <<Max2(1, IntDiv(W * pc, 100)), Max2(1, IntDiv(H * pc, 100))>>)
        ELSE IF opts.scale_mode = "width"
        THEN LET new_w == Max2(1, opts.scale_value)
             IN  Resize(img, <<new_w, Max2(1, IntDiv(H * opts.scale_value, W))>>)
        ELSE IF opts.scale_mode = "height"
        THEN LET new_h == Max2(1, opts.scale_value)
             IN  Resize(img, <<Max2(1, IntDiv(W * opts.scale_value, H)), new_h>>)
        ELSE img

\* the aspect ratio is taken upside down: W / H for H / W
resize_for_export_SwappedAspect(img, opts) ==
    LET W == img.size[1]
        H == img.size[2]
    IN  IF opts.scale_mode = "none" THEN img
        ELSE IF opts.scale_mode = "percent"
        THEN LET pc == Max2(1, opts.scale_value)
             IN  Resize(img, <<Max2(1, IntDiv(W * pc, 100)), Max2(1, IntDiv(H * pc, 100))>>)
        ELSE IF opts.scale_mode = "width"
        THEN LET new_w == Max2(1, opts.scale_value)
             IN  Resize(img, <<new_w, Max2(1, IntDiv(W * new_w, H))>>)
        ELSE IF opts.scale_mode = "height"
        THEN LET new_h == Max2(1, opts.scale_value)
             IN  Resize(img, <<Max2(1, IntDiv(H * new_h, W)), new_h>>)
        ELSE img

\* resize_for_export (watermarking.py:163-178)
resize_for_export(img, opts) ==
    LET W == img.size[1]
        H == img.size[2]
    IN  IF opts.scale_mode = "none" THEN img
        ELSE IF opts.scale_mode = "percent"
        THEN LET pc == Max2(1, opts.scale_value)
             IN  Resize(img, <<Max2(1, IntDiv(W * pc, 100)), Max2(1, IntDiv(H * pc, 100))>>)
        ELSE IF opts.scale_mode = "width"
        THEN LET new_w == Max2(1, opts.scale_value)
             IN  Resize(img, <<new_w, Max2(1, IntDiv(H * new_w, W))>>)
        ELSE IF opts.scale_mode = "height"
        THEN LET new_h == Max2(1, opts.scale_value)
             IN  Resize(img, <<Max2(1, IntDiv(W * new_h, H)), new_h>>)
        ELSE img

\* the alpha channel is dropped instead of being used as the paste mask
FlattenPixelNoMask(mode, pix) ==
    IF pix = Unknown THEN Unknown
    ELSE IF mode \in {"RGBA", "RGB"} THEN <<pix[1], pix[2], pix[3]>>
    ELSE <<pix[1], pix[1], pix[1]>>

\* bg.paste(img, mask=alpha) onto the white RGB background: every colour
\* channel of the source seen through its alpha over 255
FlattenPixel(mode, pix) ==
    IF pix = Unknown THEN Unknown
    ELSE IF mode = "RGBA" THEN [c \in 1..3 |-> Blend(pix[4], 255, pix[c])]
    ELSE IF mode = "RGB" THEN pix
    ELSE <<pix[1], pix[1], pix[1]>>

\* export_image (watermarking.py:180-187): the file written at out_path, as
\* the format it is encoded in and the image handed to the encoder
export_image(img, out_path, opts) ==
    IF EncodedAs(opts.out_format) = "JPEG"
    THEN [path |-> out_path, format |-> "JPEG",
          quality |-> Max2(0, Min2(100, opts.jpeg_quality)),
          img |-> [mode |-> "RGB", size |-> img.size,
                   px |-> [q \in Positions(img.size) |-> FlattenPixel(img.mode, img.px[q])]]]
    ELSE [path |-> out_path, format |-> "PNG", quality |-> 0, img |-> img]

(***************************************************************************)
(* The calls of the function-level specification and their inputs.         *)
(***************************************************************************)
\* pixels of the source images: opaque, half transparent, fully transparent
\* with a colour underneath
Palette == {<<255, 0, 0, 255>>, <<10, 200, 30, 128>>, <<90, 60, 30, 0>>}

InMode(mode, p) ==
    IF mode = "RGBA" THEN p ELSE IF mode = "RGB" THEN <<p[1], p[2], p[3]>> ELSE <<p[1]>>

\* a source image: two pixels of the palette laid out as a checkerboard
SourceImages ==
    { [mode |-> m, size |-> <<w, h>>,
       px |-> [q \in Positions(<<w, h>>) |->
                 InMode(m, IF (q[1] + q[2]) % 2 = 0 THEN pp[1] ELSE pp[2])]] :
        m \in {"RGBA", "RGB", "L"}, w \in 1..MaxDim, h \in 1..MaxDim,
        pp \in {<<pa, pb>> \in Palette \X Palette : pa # pb /\ pa[4] > pb[4]} }

Style(stroke, shadow) ==
    [family_path |-> NoneVal, size |-> 48, color |-> <<255, 255, 255, 180>>,
     stroke |-> stroke, stroke_width |-> 1, stroke_color |-> <<0, 0, 0, 200>>,
     shadow |-> shadow, shadow_offset |-> <<1, 1>>, shadow_color |-> <<0, 0, 0, 160>>]

Angles == {0, 45, 90, 180}
\* anchors on the canvas, partly off it and wholly off it
Anchors == {<<0, 0>>, <<1, 1>>, <<-1, 0>>, <<-9, MaxDim + 2>>}
\* what the font measures: the empty text, and two short texts
TextBoxes == {<<0, 0, 0, 0>>, <<0, 1, 2, 2>>, <<1, 0, 5, 1>>}

Logos ==
    { [mode |-> "RGBA", size |-> <<1, 1>>, px |-> [q \in Positions(<<1, 1>>) |-> <<0, 0, 255, 255>>]],
      [mode |-> "RGBA", size |-> <<3, 2>>,
       px |-> [q \in Positions(<<3, 2>>) |-> IF q[1] = 0 THEN <<9, 9, 9, 0>> ELSE <<40, 50, 60, 200>>]] }

TextCfg(style, angle, pos) ==
    [kind |-> "text", text_style |-> style, image_path |-> NoneVal, image_alpha |-> 180,
     scale_percent |-> 100, angle_deg |-> angle, pos |-> pos]
ImageCfg(path, alpha, scale, angle, pos) ==
    [kind |-> "image", text_style |-> << >>, image_path |-> path, image_alpha |-> alpha,
     scale_percent |-> scale, angle_deg |-> angle, pos |-> pos]

TextCfgs ==
    { TextCfg(<<Style(ss[1], ss[2])>>, a, pos) :
        ss \in {<<FALSE, FALSE>>, <<TRUE, FALSE>>, <<TRUE, TRUE>>}, a \in Angles, pos \in Anchors }
ImageCfgs ==
    { ImageCfg(LogoPath, al, sc, a, pos) :
        al \in {255, 128}, sc \in {100, 250}, a \in {0, -90}, pos \in Anchors }
\* the configurations that attach nothing to render
BareCfgs ==
    { TextCfg(<< >>, a, pos) : a \in {0, 90}, pos \in {<<0, 0>>} }
    \cup { ImageCfg(path, 180, 100, a, pos) :
             path \in {NoneVal, EmptyStr}, a \in {0}, pos \in {<<0, 0>>} }

NoLogo == << >>

\* one call of apply_watermark on the source, as the first render of it
Rendered(cfg, env) ==
    LET out == apply_watermark(src, cfg, env)
    IN  /\ call' = [fn |-> "apply_watermark", cfg |-> cfg, env |-> env,
                     layer |-> Overlay(ConvertRGBA(src).size, cfg, env),
                     out |-> out, n |-> 1, first |-> [cfg |-> cfg, out |-> out],
                     src0 |-> src, mid |-> out,
                     canvas |-> IF cfg.kind = "text" /\ cfg.text_style # << >>
                                THEN TextCanvasSize(cfg, env) ELSE <<0, 0>>,
                     ink |-> IF cfg.kind = "text" /\ cfg.text_style # << >>
                             THEN Ink(env.bbox, cfg.text_style[1]) ELSE {}]
        /\ src' = SourceAfter(src, cfg, env)

call_apply_watermark ==
    /\ call = NoCall
    /\ \/ \E cfg \in TextCfgs, box \in TextBoxes :
            Rendered(cfg, [bbox |-> box, logo |-> NoLogo])
       \/ \E cfg \in ImageCfgs, logo \in {NoLogo} \cup {<<l>> : l \in Logos} :
            Rendered(cfg, [bbox |-> <<0, 0, 0, 0>>, logo |-> logo])
       \/ \E cfg \in BareCfgs, box \in {<<0, 1, 2, 2>>}, logo \in {<<l>> : l \in Logos} :
            Rendered(cfg, [bbox |-> box, logo |-> logo])
    /\ UNCHANGED editorVars /\ UNCHANGED styleVars

\* the stroke is switched and the same source rendered again, as the
\* preview does after toggle_stroke (main.py:447-449, 80-87)
call_apply_watermark_again ==
    /\ call.fn = "apply_watermark"
    /\ call.cfg.kind = "text" /\ call.cfg.text_style # << >>
    /\ call.n < MaxRenders
    /\ LET style == call.cfg.text_style[1]
           cfg == [call.cfg EXCEPT !.text_style = <<[style EXCEPT !.stroke = ~ style.stroke]>>]
       IN  /\ call' = [call EXCEPT !.cfg = cfg, !.n = @ + 1, !.mid = call.out,
                                   !.layer = Overlay(ConvertRGBA(src).size, cfg, call.env),
                                   !.out = apply_watermark(src, cfg, call.env)]
           /\ src' = SourceAfter(src, cfg, call.env)
    /\ UNCHANGED editorVars /\ UNCHANGED styleVars

\* a logo one pixel high holding every alpha from 0 to 255, left to right
AlphaRamp ==
    [mode |-> "RGBA", size |-> <<256, 1>>,
     px |-> [q \in Positions(<<256, 1>>) |-> <<40, 50, 60, q[1]>>]]

\* opacities from nothing to full, around one half, those where the float
\* product falls short, and beyond 255
Opacities == {0, 1, 2, 64, 127, 128, 129, 147, 155, 171, 187, 195, 200, 254, 255, 300}

\* the image branch of apply_watermark on the ramp, anchored at the origin
call_render_image_layer ==
    /\ call = NoCall
    /\ \E al \in Opacities :
         LET cfg == ImageCfg(LogoPath, al, 100, 0, <<0, 0>>)
             env == [bbox |-> <<0, 0, 0, 0>>, logo |-> <<AlphaRamp>>]
         IN  call' = [fn |-> "_render_image_layer", cfg |-> cfg, env |-> env,
                      logo |-> LogoAtOpacity(cfg, env),
                      layer |-> _render_image_layer(ConvertRGBA(src).size, cfg, env)]
    /\ UNCHANGED src
    /\ UNCHANGED editorVars /\ UNCHANGED styleVars

\* pixel counts for the width and height modes, percentages for percent
PixelValues == {-3, 0, 1, 2, 3, 5}
PercentValues == {-3, 0, 1, 50, 100, 150, 250}
ScaleValues(m) == IF m = "percent" THEN PercentValues ELSE PixelValues

call_resize_for_export ==
    /\ call = NoCall
    /\ \E m \in ScaleModes : \E v \in ScaleValues(m) :
         LET opts == [out_format |-> FmtPNG, jpeg_quality |-> 90,
                      scale_mode |-> m, scale_value |-> v]
         IN  call' = [fn |-> "resize_for_export", img |-> src, opts |-> opts, n |-> 1,
                      first |-> resize_for_export(src, opts),
                      out |-> resize_for_export(src, opts)]
    /\ UNCHANGED src
    /\ UNCHANGED editorVars /\ UNCHANGED styleVars

\* the function applied again to what it returned
call_resize_again ==
    /\ call.fn = "resize_for_export"
    /\ call.n < MaxRepeat
    /\ call' = [call EXCEPT !.n = @ + 1, !.out = resize_for_export(call.out, call.opts)]
    /\ UNCHANGED src
    /\ UNCHANGED editorVars /\ UNCHANGED styleVars

call_export_image ==
    /\ call = NoCall
    /\ \E f \in {FmtPNG, FmtJPEG, FmtLower, FmtJPG}, qual \in {-5, 90, 101} :
         LET opts == [out_format |-> f, jpeg_quality |-> qual,
                      scale_mode |-> "none", scale_value |-> 100]
         IN  call' = [fn |-> "export_image", img |-> src, opts |-> opts,
                      out |-> export_image(src, Dir_out \o <<"/", "f">> \o ExtOf(f), opts)]
    /\ UNCHANGED src
    /\ UNCHANGED editorVars /\ UNCHANGED styleVars

(***************************************************************************)
(* Font resolution (watermarking.py:11-38, 80-88).  A font path is kept    *)
(* whole, as a one-element sequence.  fs is the file system of a call:     *)
(* fs.platform, fs.exists (the paths os.path.exists finds) and fs.loads    *)
(* (the paths ImageFont.truetype can load).                                *)
(***************************************************************************)
Platforms == {"win", "darwin", "linux"}

\* the candidate list find_default_font builds for the platform
Candidates(platform) ==
    IF platform = "win"
    THEN << <<"msyh.ttc">>, <<"simhei.ttf">>, <<"simsun.ttc">>, <<"arial.ttf">> >>
    ELSE IF platform = "darwin"
    THEN << <<"PingFang.ttc">>, <<"Songti.ttc">>, <<"Helvetica.ttc">>, <<"Arial.ttf">> >>
    ELSE << <<"noto/NotoSansCJK-Regular.ttc">>, <<"DejaVuSans.ttf">>,
            <<"opentype/NotoSansCJK-Regular.ttc">> >>

\* find_default_font (watermarking.py:11-38): the first candidate that
\* exists, None when none does
find_default_font(fs) ==
    LET c == Candidates(fs.platform)
        hits == {i \in 1..Len(c) : c[i] \in fs.exists}
    IN  IF hits = {} THEN NoneVal
        ELSE c[CHOOSE i \in hits : \A j \in hits : i <= j]

\* ImageFont.load_default()
BuiltInFont == <<"load_default">>

\* _load_font (watermarking.py:80-88): the font file loaded, or the built-in
\* font; the exception of a failed load is swallowed
_load_font(family_path, fs) ==
    LET path == IF Truthy(family_path) THEN family_path ELSE find_default_font(fs)
    IN  IF Truthy(path) /\ path \in fs.loads THEN path ELSE BuiltInFont

UserFont == <<"user.ttf">>

\* every file system over the candidates of the platform and the user's
\* font: a file is absent, present and corrupt, or present and loadable
call_load_font ==
    /\ call = NoCall
    /\ \E pf \in Platforms :
         LET files == {UserFont} \cup {Candidates(pf)[i] : i \in 1..Len(Candidates(pf))}
         IN  \E ex \in SUBSET files : \E ld \in SUBSET ex :
               \E fp \in {NoneVal, EmptyStr, UserFont} :
                 LET fs == [platform |-> pf, exists |-> ex, loads |-> ld]
                 IN  call' = [fn |-> "_load_font", family_path |-> fp, fs |-> fs,
                              raised |-> "none", font |-> _load_font(fp, fs)]
    /\ UNCHANGED src
    /\ UNCHANGED editorVars /\ UNCHANGED styleVars

(***************************************************************************)
(* The style, scale and quality fields of the editor, their controls, and  *)
(* the templates.                                                          *)
(***************************************************************************)
DefaultText == <<"(", "c", ")">>
OtherText == <<"h", "i">>

\* the machine the editor runs on: one candidate font is installed
EditorFs == [platform |-> "linux", exists |-> {<<"DejaVuSans.ttf">>},
             loads |-> {<<"DejaVuSans.ttf">>}]

\* MainWindow.__init__: the fields (main.py:104-129) and the controls built
\* from them (main.py:188-283)
StyleDefaults ==
    [text_content |-> DefaultText, text_color |-> Tup(<<255, 255, 255, 180>>),
     stroke_on |-> TRUE, stroke_width |-> 2, stroke_color |-> Tup(<<0, 0, 0, 200>>),
     shadow_on |-> TRUE, shadow_offset |-> Tup(<<2, 2>>),
     shadow_color |-> Tup(<<0, 0, 0, 160>>),
     font_path |-> find_default_font(EditorFs), font_size |-> 48,
     bold |-> FALSE, italic |-> FALSE,
     img_wm_alpha |-> 180, img_wm_scale |-> 100, angle |-> 0, pos |-> Tup(<<50, 50>>),
     jpeg_quality |-> 90, scale_mode |-> "none", scale_value |-> 100,
     ed_text |-> DefaultText, sp_alpha |-> 180, sp_fontsize |-> 48,
     ck_bold |-> FALSE, ck_italic |-> FALSE, ck_stroke |-> TRUE, sp_stroke_w |-> 2,
     ck_shadow |-> TRUE, sp_shadow_dx |-> 2, sp_shadow_dy |-> 2, sl_angle |-> 0,
     sl_img_alpha |-> 180, sp_img_scale |-> 100,
     sl_quality |-> 90, cb_scale_mode |-> "none", sp_scale_value |-> 100]

\* collect_state (main.py:555-585)
collect_state ==
    [kind |-> kind,
     text_content |-> ed.text_content,
     text_color |-> ed.text_color,
     stroke_on |-> ed.stroke_on,
     stroke_width |-> ed.stroke_width,
     stroke_color |-> ed.stroke_color,
     shadow_on |-> ed.shadow_on,
     shadow_offset |-> ed.shadow_offset,
     shadow_color |-> ed.shadow_color,
     font_path |-> ed.font_path,
     font_size |-> ed.font_size,
     bold |-> ed.bold,
     italic |-> ed.italic,
     img_wm_path |-> img_wm_path,
     img_wm_alpha |-> ed.img_wm_alpha,
     img_wm_scale |-> ed.img_wm_scale,
     angle |-> ed.angle,
     pos |-> ed.pos,
     out_dir |-> out_dir,
     out_format |-> out_format,
     jpeg_quality |-> ed.jpeg_quality,
     scale_mode |-> ed.scale_mode,
     scale_value |-> ed.scale_value,
     naming |-> [mode |-> naming.mode, prefix |-> naming.prefix, suffix |-> naming.suffix]]

\* get_cfg (main.py:387-408) with the values it passes on
EditorCfg ==
    IF kind = "text"
    THEN [kind |-> "text", text |-> ed.text_content,
          text_style |-> [family_path |-> ed.font_path, size |-> ed.font_size,
                          bold |-> ed.bold, italic |-> ed.italic,
                          color |-> ed.text_color,
                          stroke |-> ed.stroke_on, stroke_width |-> ed.stroke_width,
                          stroke_color |-> ed.stroke_color,
                          shadow |-> ed.shadow_on, shadow_offset |-> ed.shadow_offset,
                          shadow_color |-> ed.shadow_color],
          angle_deg |-> ed.angle, pos |-> ed.pos]
    ELSE [kind |-> "image", image_path |-> img_wm_path,
          image_alpha |-> ed.img_wm_alpha, scale_percent |-> ed.img_wm_scale,
          angle_deg |-> ed.angle, pos |-> ed.pos]

\* a handler of a style control ran: the fields and controls become e
Edited(e) ==
    /\ edits < MaxEdits
    /\ edits' = edits + 1
    /\ ed' = e
    /\ UNCHANGED <<images, out_dir, out_format, cb_format, naming, cb_naming,
                   kind, img_wm_path, unreadable, tpl>>
    /\ UNCHANGED callVars

\* the handler ends with self.preview.refresh()
Redrawn == Outcome(IF RefreshRaises(kind, img_wm_path, images)
                   THEN "apply_watermark" ELSE "none")

\* on_text_change (main.py:414-416), reached through ed_text's textChanged
on_text_change ==
    \E t \in {DefaultText, OtherText} :
        /\ t # ed.ed_text
        /\ Edited([ed EXCEPT !.ed_text = t, !.text_content = t])
        /\ Redrawn

\* pick_text_color (main.py:418-422): the colour of the dialog with the
\* alpha the text had; a cancelled dialog returns an invalid colour
pick_text_color ==
    \E c \in {<<10, 20, 30>>, << >>} :
        /\ Edited(IF c # << >>
                  THEN [ed EXCEPT !.text_color =
                           Tup(<<c[1], c[2], c[3], ed.text_color.items[4]>>)]
                  ELSE ed)
        /\ IF c # << >> THEN Redrawn ELSE Outcome("none")

\* set_text_alpha (main.py:424-427), reached through sp_alpha's valueChanged
set_text_alpha ==
    \E v \in {180, 90} :
        /\ v # ed.sp_alpha
        /\ Edited([ed EXCEPT !.sp_alpha = v,
                             !.text_color = Tup(<<@.items[1], @.items[2], @.items[3], v>>)])
        /\ Redrawn

\* pick_font (main.py:429-433): a cancelled dialog changes nothing
pick_font ==
    \E f \in {UserFont, EmptyStr} :
        /\ Edited(IF Truthy(f) THEN [ed EXCEPT !.font_path = f] ELSE ed)
        /\ IF Truthy(f) THEN Redrawn ELSE Outcome("none")

\* set_font_size (main.py:435-437), reached through sp_fontsize's valueChanged
set_font_size ==
    \E v \in {48, 72} :
        /\ v # ed.sp_fontsize
        /\ Edited([ed EXCEPT !.sp_fontsize = v, !.font_size = v])
        /\ Redrawn

\* toggle_bold, toggle_italic (main.py:439-445), reached through stateChanged
toggle_bold ==
    /\ Edited([ed EXCEPT !.ck_bold = ~ @, !.bold = ~ ed.ck_bold])
    /\ Redrawn

toggle_italic ==
    /\ Edited([ed EXCEPT !.ck_italic = ~ @, !.italic = ~ ed.ck_italic])
    /\ Redrawn

\* toggle_stroke (main.py:447-449)
toggle_stroke ==
    /\ Edited([ed EXCEPT !.ck_stroke = ~ @, !.stroke_on = ~ ed.ck_stroke])
    /\ Redrawn

\* the stroke width box (main.py:225): its valueChanged is connected to
\* nothing, so a new value changes the control only
sp_stroke_w_setValue ==
    \E v \in {2, 5} :
        /\ v # ed.sp_stroke_w
        /\ Edited([ed EXCEPT !.sp_stroke_w = v])
        /\ Outcome("none")

\* toggle_shadow (main.py:457-459)
toggle_shadow ==
    /\ Edited([ed EXCEPT !.ck_shadow = ~ @, !.shadow_on = ~ ed.ck_shadow])
    /\ Redrawn

\* the shadow offset boxes (main.py:233-234): connected to nothing
sp_shadow_setValue ==
    \E dx \in {2, -3}, dy \in {2, 4} :
        /\ <<dx, dy>> # <<ed.sp_shadow_dx, ed.sp_shadow_dy>>
        /\ Edited([ed EXCEPT !.sp_shadow_dx = dx, !.sp_shadow_dy = dy])
        /\ Outcome("none")

\* set_angle (main.py:467-469), reached through sl_angle's valueChanged
set_angle ==
    \E v \in {0, 30} :
        /\ v # ed.sl_angle
        /\ Edited([ed EXCEPT !.sl_angle = v, !.angle = v])
        /\ Redrawn

\* set_img_alpha, set_img_scale (main.py:482-488)
set_img_alpha ==
    \E v \in {180, 128} :
        /\ v # ed.sl_img_alpha
        /\ Edited([ed EXCEPT !.sl_img_alpha = v, !.img_wm_alpha = v])
        /\ Redrawn

set_img_scale ==
    \E v \in {100, 50} :
        /\ v # ed.sp_img_scale
        /\ Edited([ed EXCEPT !.sp_img_scale = v, !.img_wm_scale = v])
        /\ Redrawn

\* mouseMoveEvent (main.py:56-75): dragging over a loaded image moves the
\* watermark to the image position under the pointer
mouseMoveEvent ==
    \E q \in {<<1, 2>>} :
        /\ images # << >>
        /\ Edited([ed EXCEPT !.pos = Tup(q)])
        /\ Redrawn

\* set_quality, set_scale_mode, set_scale_value (main.py:499-506)
set_quality ==
    \E v \in {90, 75} :
        /\ v # ed.sl_quality
        /\ Edited([ed EXCEPT !.sl_quality = v, !.jpeg_quality = v])
        /\ Outcome("none")

set_scale_mode ==
    \E m \in {"none", "width"} :
        /\ m # ed.cb_scale_mode
        /\ Edited([ed EXCEPT !.cb_scale_mode = m, !.scale_mode = m])
        /\ Outcome("none")

set_scale_value ==
    \E v \in {100, 200} :
        /\ v # ed.sp_scale_value
        /\ Edited([ed EXCEPT !.sp_scale_value = v, !.scale_value = v])
        /\ Outcome("none")

\* a template with every key, as json.load returns it
FullTemplate ==
    [kind |-> "image", text_content |-> OtherText,
     text_color |-> Lst(<<10, 20, 30, 90>>),
     stroke_on |-> FALSE, stroke_width |-> 5, stroke_color |-> Lst(<<1, 2, 3, 200>>),
     shadow_on |-> FALSE, shadow_offset |-> Lst(<<-3, 4>>),
     shadow_color |-> Lst(<<4, 5, 6, 160>>),
     font_path |-> NoneVal, font_size |-> 72, bold |-> TRUE, italic |-> TRUE,
     img_wm_path |-> LogoPath, img_wm_alpha |-> 128, img_wm_scale |-> 50,
     angle |-> 30, pos |-> Lst(<<1, 2>>),
     out_dir |-> Dir_out, out_format |-> FmtJPEG, jpeg_quality |-> 75,
     scale_mode |-> "width", scale_value |-> 200,
     naming |-> [mode |-> "prefix", prefix |-> OtherPrefix, suffix |-> OtherSuffix]]

\* the templates of the template folder: the empty record, the full one,
\* every record with one key, and every record whose naming sub-record has
\* a subset of its keys
TemplateRecords ==
    {EmptyRecord, FullTemplate}
      \cup {k :> FullTemplate[k] : k \in DOMAIN FullTemplate}
      \cup {"naming" :> [k \in ks |-> FullTemplate.naming[k]] :
              ks \in SUBSET {"mode", "prefix", "suffix"}}

\* load_tpl (main.py:655-660) and the apply_state it calls (main.py:587-637):
\* the selected template is read and applied; the controls are refreshed and
\* the preview is rendered again, unless the record is empty
load_tpl ==
    LET n == IF DOMAIN tpl = {} THEN Fields ELSE Applied(Fields, tpl)
    IN  /\ edits < MaxEdits
        /\ edits' = edits + 1
        /\ kind' = n.kind
        /\ img_wm_path' = n.img_wm_path
        /\ out_dir' = n.out_dir
        /\ out_format' = n.out_format
        /\ cb_format' = n.cb_format
        /\ naming' = n.naming
        /\ cb_naming' = n.cb_naming
        /\ ed' = IF DOMAIN tpl = {} THEN ed ELSE RefreshedEd(AppliedEd(ed, tpl))
        /\ lastOp' = "load_tpl"
        /\ msgs' = << >>
        /\ written' = << >>
        /\ raised' = IF DOMAIN tpl # {} /\ RefreshRaises(n.kind, n.img_wm_path, images)
                     THEN "apply_watermark" ELSE "none"
        /\ UNCHANGED <<images, unreadable, tpl>>
        /\ UNCHANGED callVars

InfoSaved == [level |-> "information", what |-> "template saved", cnt |-> 0]

\* save_tpl (main.py:644-653): the state is written under the chosen name
\* and the template list is rebuilt, which selects its first name - the
\* name just chosen; a cancelled dialog saves nothing
save_tpl ==
    \E ok \in BOOLEAN :
        /\ edits < MaxEdits
        /\ edits' = edits + 1
        /\ tpl' = IF ok THEN json_round_trip(collect_state) ELSE tpl
        /\ lastOp' = "save_tpl"
        /\ msgs' = IF ok THEN <<InfoSaved>> ELSE << >>
        /\ written' = << >>
        /\ raised' = "none"
        /\ UNCHANGED <<images, out_dir, out_format, cb_format, naming, cb_naming,
                       kind, img_wm_path, unreadable, ed>>
        /\ UNCHANGED callVars

(***************************************************************************)
(* The editor: construction, then any sequence of handlers.                *)
(***************************************************************************)
\* __init__ ends by loading the last-used record (main.py:325, 673-675);
\* load_last_used yields {} when no record was stored (templates.py:41-45)
Init ==
    \E s \in StoredRecords :
        LET n == IF DOMAIN s = {} THEN Defaults ELSE Applied(Defaults, s)
        IN  /\ images = << >>
            /\ kind = n.kind
            /\ img_wm_path = n.img_wm_path
            /\ out_dir = n.out_dir
            /\ out_format = n.out_format
            /\ cb_format = n.cb_format
            /\ naming = n.naming
            /\ cb_naming = n.cb_naming
            /\ unreadable = {}
            /\ lastOp = "init"
            /\ msgs = << >>
            /\ written = << >>
            /\ raised = "none"
            /\ src = NoneVal
            /\ call = NoCall
            /\ ed = StyleDefaults
            /\ tpl = EmptyRecord
            /\ edits = 0

Next ==
    \/ add_paths
    \/ pick_outdir
    \/ set_out_format
    \/ on_naming_change
    \/ ed_prefix_textChanged
    \/ ed_suffix_textChanged
    \/ on_kind_change
    \/ pick_wm_image
    \/ apply_state
    \/ do_export
    \/ FileChange

Spec == Init /\ [][Next]_vars

(***************************************************************************)
(* The functions of watermarking.py, called on every source image.         *)
(***************************************************************************)
InitCalls ==
    /\ images = << >>
    /\ kind = Defaults.kind
    /\ img_wm_path = Defaults.img_wm_path
    /\ out_dir = Defaults.out_dir
    /\ out_format = Defaults.out_format
    /\ cb_format = Defaults.cb_format
    /\ naming = Defaults.naming
    /\ cb_naming = Defaults.cb_naming
    /\ unreadable = {}
    /\ lastOp = "init"
    /\ msgs = << >>
    /\ written = << >>
    /\ raised = "none"
    /\ src \in SourceImages
    /\ call = NoCall
    /\ ed = StyleDefaults
    /\ tpl = EmptyRecord
    /\ edits = 0

NextCalls ==
    \/ call_apply_watermark
    \/ call_apply_watermark_again
    \/ call_render_image_layer
    \/ call_resize_for_export
    \/ call_resize_again
    \/ call_export_image

SpecCalls == InitCalls /\ [][NextCalls]_vars

(***************************************************************************)
(* Font resolution, called on every file system.                           *)
(***************************************************************************)
InitFont ==
    /\ images = << >>
    /\ kind = Defaults.kind
    /\ img_wm_path = Defaults.img_wm_path
    /\ out_dir = Defaults.out_dir
    /\ out_format = Defaults.out_format
    /\ cb_format = Defaults.cb_format
    /\ naming = Defaults.naming
    /\ cb_naming = Defaults.cb_naming
    /\ unreadable = {}
    /\ lastOp = "init"
    /\ msgs = << >>
    /\ written = << >>
    /\ raised = "none"
    /\ src = NoneVal
    /\ call = NoCall
    /\ ed = StyleDefaults
    /\ tpl = EmptyRecord
    /\ edits = 0

NextFont == call_load_font

SpecFont == InitFont /\ [][NextFont]_vars

(***************************************************************************)
(* The editor's style controls and templates: a session of at most         *)
(* MaxEdits handlers on an open image, with any template of the folder     *)
(* selected in the list and the logo file present or missing.              *)
(***************************************************************************)
InitEditor ==
    /\ images = <<Img1Png>>
    /\ kind = Defaults.kind
    /\ img_wm_path = Defaults.img_wm_path
    /\ out_dir = Defaults.out_dir
    /\ out_format = Defaults.out_format
    /\ cb_format = Defaults.cb_format
    /\ naming = Defaults.naming
    /\ cb_naming = Defaults.cb_naming
    /\ unreadable \in {{}, {LogoPath}}
    /\ lastOp = "init"
    /\ msgs = << >>
    /\ written = << >>
    /\ raised = "none"
    /\ src = NoneVal
    /\ call = NoCall
    /\ ed = StyleDefaults
    /\ tpl \in TemplateRecords
    /\ edits = 0

NextEditor ==
    \/ on_text_change
    \/ pick_text_color
    \/ set_text_alpha
    \/ pick_font
    \/ set_font_size
    \/ toggle_bold
    \/ toggle_italic
    \/ toggle_stroke
    \/ sp_stroke_w_setValue
    \/ toggle_shadow
    \/ sp_shadow_setValue
    \/ set_angle
    \/ set_img_alpha
    \/ set_img_scale
    \/ mouseMoveEvent
    \/ set_quality
    \/ set_scale_mode
    \/ set_scale_value
    \/ load_tpl
    \/ save_tpl

SpecEditor == InitEditor /\ [][NextEditor]_vars


(***************************************************************************)
(* Claims about the batch export, checked under Spec.                      *)
(***************************************************************************)
\* do_export has just run and got past its two emptiness checks
Exported == lastOp = "do_export" /\ images # << >> /\ Truthy(out_dir)

\* the output directory is the directory of one of the input images
SameDirAsSource == \E i \in 1..Len(images) : dirname(images[i]) = out_dir

\* C1: a batch export with a non-empty image list and a chosen output
\* directory that is the source directory of any input image writes no
\* file and reports exactly one warning.
C1_BatchGuard ==
    (Exported /\ SameDirAsSource) => (written = << >> /\ msgs = <<WarnSameDir>>)

\* C1 witness: the export was rejected because of the second image's
\* directory, the first image lying elsewhere.
C1_Witness ==
    /\ Exported /\ Len(images) = 2
    /\ dirname(images[1]) # out_dir /\ dirname(images[2]) = out_dir
    /\ msgs = <<WarnSameDir>>

\* the render of every image of this batch fails: the logo cannot be read
RenderFails == kind # "text" /\ Truthy(img_wm_path) /\ img_wm_path \in unreadable

\* C2: in a batch export, an image whose render fails (logo missing or
\* corrupt) is not exported and is reported, and every image whose render
\* does not fail is exported.
C2_FailureIsolation ==
    (Exported /\ ~ SameDirAsSource) =>
        \A i \in 1..Len(images) :
            IF RenderFails
            THEN /\ \A j \in 1..Len(written) : written[j].from # images[i]
                 /\ \E j \in 1..Len(msgs) : msgs[j].level # "information"
            ELSE \E j \in 1..Len(written) : written[j].from = images[i]

\* the name, without extension, the naming rule gives source path p
ExpectedStem(p) ==
    CASE naming.mode = "keep" -> stem(p)
      [] naming.mode = "prefix" -> naming.prefix \o stem(p)
      [] naming.mode = "suffix" -> stem(p) \o naming.suffix

\* C7: every exported file is named by the naming rule (the stem in keep
\* mode, prefix + stem in prefix mode, stem + suffix in suffix mode) with
\* the extension of the output format, .png for PNG and .jpg for JPEG,
\* whatever the extension of the source file.
C7_FilenameDerivation ==
    (Exported /\ raised = "none" /\ ~ SameDirAsSource) =>
        /\ Len(written) = Len(images)
        /\ \A i \in 1..Len(images) :
              /\ written[i].from = images[i]
              /\ dirname(written[i].path) = out_dir
              /\ basename(written[i].path)
                    = ExpectedStem(images[i]) \o suffix(written[i].path)
              /\ Upper(out_format) = FmtPNG => suffix(written[i].path) = ExtPng
              /\ Upper(out_format) = FmtJPEG => suffix(written[i].path) = ExtJpg

\* C7 witness: a .jpg source exported as PNG under a prefix rule.
C7_Witness ==
    /\ Exported /\ written # << >>
    /\ naming.mode = "prefix" /\ out_format = FmtPNG
    /\ suffix(written[1].from) = ExtJpg /\ suffix(written[1].path) = ExtPng

\* C8: every file a batch export writes is encoded in the format its
\* extension names: .jpg files are JPEG, .png files are PNG.
C8_ExtensionMatchesEncoding ==
    lastOp = "do_export" =>
        \A i \in 1..Len(written) :
            /\ suffix(written[i].path) = ExtJpg => written[i].enc = "JPEG"
            /\ suffix(written[i].path) = ExtPng => written[i].enc = "PNG"

\* C17: in a batch export that passes the directory guard and completes
\* without error, distinct input images are written to distinct output
\* paths, so the number of files in the output directory equals the success
\* count reported to the user.
C17_NoOverwrite ==
    (Exported /\ raised = "none" /\ ~ SameDirAsSource
       /\ \A j \in 1..Len(msgs) : msgs[j].level = "information") =>
        /\ \A i, j \in 1..Len(written) :
              written[i].from # written[j].from => written[i].path # written[j].path
        /\ \A j \in 1..Len(msgs) :
              Cardinality({written[i].path : i \in 1..Len(written)}) = msgs[j].cnt

(***************************************************************************)
(* Claims about the functions, checked under SpecCalls.                    *)
(***************************************************************************)
\* the call attached nothing to render: kind text without a style, or kind
\* image without a path
BareCall ==
    /\ call.fn = "apply_watermark"
    /\ \/ call.cfg.kind = "text" /\ call.cfg.text_style = << >>
       \/ call.cfg.kind = "image" /\ ~ Truthy(call.cfg.image_path)

\* C3, original statement: apply_watermark with nothing attached returns the source
\* unchanged, whatever the source image, and raises nothing.
C3_NoOpReturnsSource ==
    BareCall => (call.out.raised = "none" /\ call.out.img = src)

\* C3, amended statement: apply_watermark with nothing attached raises nothing,
\* renders nothing and returns the source converted to RGBA: the source
\* itself when it is RGBA, and for an RGB or L source an image of the same
\* size whose pixels carry the source's colour and an opaque alpha.
C3_NoOpReturnsRGBA ==
    BareCall =>
        /\ call.out.raised = "none"
        /\ call.layer = << >>
        /\ call.out.img.mode = "RGBA"
        /\ call.out.img.size = src.size
        /\ src.mode = "RGBA" => call.out.img = src
        /\ src.mode = "RGB" =>
              \A q \in Positions(src.size) : call.out.img.px[q] = src.px[q] \o <<255>>
        /\ src.mode = "L" =>
              \A q \in Positions(src.size) :
                  call.out.img.px[q] = <<src.px[q][1], src.px[q][1], src.px[q][1], 255>>

\* C3 witness: kind image with an empty path on an RGB source, and kind
\* text without a style on an RGBA source, have both been called.
C3_Witness ==
    /\ BareCall /\ call.out.raised = "none"
    /\ call.cfg.kind = "image" /\ call.cfg.image_path = EmptyStr
    /\ src.mode = "RGB" /\ src.size = <<2, 2>>

\* C4: with scale_mode none, resize_for_export returns its input image for
\* every scale_value, and applied again to its result it returns the same.
C4_ResizeIdentity ==
    (call.fn = "resize_for_export" /\ call.opts.scale_mode = "none") =>
        (call.first = call.img /\ call.out = call.first)

\* C4 witness: scale_mode none applied twice with a scale_value that would
\* enlarge the image in any other mode.
C4_Witness ==
    /\ call.fn = "resize_for_export" /\ call.opts.scale_mode = "none"
    /\ call.opts.scale_value = 5 /\ call.n = 2 /\ call.img.size = <<2, 3>>

\* round(a / b) for b > 0 as Python rounds: to the nearest integer, a tie
\* to the even one
RoundDiv(a, b) ==
    LET q == a \div b
        r == a % b
    IN  IF 2 * r < b THEN q
        ELSE IF 2 * r > b THEN q + 1
        ELSE IF q % 2 = 0 THEN q ELSE q + 1

\* d is x = a / b scaled as the statement leaves open: rounded down or to
\* the nearest integer, and not below 1
ScaledSomehow(d, a, b) == d = Max2(1, IntDiv(a, b)) \/ d = Max2(1, RoundDiv(a, b))

\* C5, original statement: width mode yields (scale_value, round(H * scale_value / W)),
\* height mode (round(W * scale_value / H), scale_value), percent mode both
\* dimensions scaled by scale_value / 100, each dimension at least 1.
C5_TargetRounded ==
    (call.fn = "resize_for_export" /\ call.opts.scale_mode # "none") =>
        LET W == call.img.size[1]
            H == call.img.size[2]
            v == call.opts.scale_value
            o == call.first.size
        IN  /\ call.opts.scale_mode = "width" =>
                  o = <<Max2(1, v), Max2(1, RoundDiv(H * v, W))>>
            /\ call.opts.scale_mode = "height" =>
                  o = <<Max2(1, RoundDiv(W * v, H)), Max2(1, v)>>
            /\ call.opts.scale_mode = "percent" =>
                  ScaledSomehow(o[1], W * v, 100) /\ ScaledSomehow(o[2], H * v, 100)

\* d is the largest integer not above a / b, and at least 1
FlooredAtOne(d, a, b) == d >= 1 /\ d * b <= Max2(a, b) /\ Max2(a, b) < (d + 1) * b

\* C5, amended statement: with s the scale_value raised to at least 1, width mode
\* yields (s, H * s / W rounded down), height mode (W * s / H rounded down,
\* s), percent mode (W * s / 100, H * s / 100) rounded down, each dimension
\* at least 1.
C5_TargetTruncated ==
    (call.fn = "resize_for_export" /\ call.opts.scale_mode # "none") =>
        LET W == call.img.size[1]
            H == call.img.size[2]
            s == Max2(1, call.opts.scale_value)
            o == call.first.size
        IN  /\ call.opts.scale_mode = "width" => o[1] = s /\ FlooredAtOne(o[2], H * s, W)
            /\ call.opts.scale_mode = "height" => FlooredAtOne(o[1], W * s, H) /\ o[2] = s
            /\ call.opts.scale_mode = "percent" =>
                  FlooredAtOne(o[1], W * s, 100) /\ FlooredAtOne(o[2], H * s, 100)

\* C5 witness: width 1 asked of a 2 x 3 image, where 3 * 1 / 2 = 1.5 rounds
\* to 2 and truncates to 1.
C5_Witness ==
    /\ call.fn = "resize_for_export" /\ call.opts.scale_mode = "width"
    /\ call.opts.scale_value = 1 /\ call.img.size = <<2, 3>>
    /\ call.first.size = <<1, 1>>

\* C6: in width mode with a positive scale_value the output width is
\* scale_value and the output height is within 1 pixel of the
\* aspect-preserving height H * scale_value / W.
C6_AspectPreserved ==
    (call.fn = "resize_for_export" /\ call.opts.scale_mode = "width"
       /\ call.opts.scale_value >= 1) =>
        LET W == call.img.size[1]
            H == call.img.size[2]
            v == call.opts.scale_value
            o == call.first.size
        IN  /\ o[1] = v
            /\ o[2] * W - H * v <= W
            /\ H * v - o[2] * W <= W

\* C6 witness: a width whose exact height is no integer (2 x 3 to width 5).
C6_Witness ==
    /\ call.fn = "resize_for_export" /\ call.opts.scale_mode = "width"
    /\ call.opts.scale_value = 5 /\ call.img.size = <<2, 3>>
    /\ call.first.size[2] * 2 # 3 * 5

\* C9: an RGBA image exported as JPEG is written without alpha channel,
\* every pixel being the source pixel over opaque white through the source
\* alpha: each channel is (alpha * c + (255 - alpha) * 255) / 255 rounded,
\* so a fully transparent pixel is white and an opaque one keeps its colour.
C9_JpegFlattened ==
    (call.fn = "export_image" /\ Upper(call.opts.out_format) = FmtJPEG
       /\ call.img.mode = "RGBA") =>
        /\ call.out.format = "JPEG"
        /\ call.out.img.mode = "RGB"
        /\ call.out.img.size = call.img.size
        /\ \A q \in Positions(call.img.size) :
              LET s == call.img.px[q]
                  o == call.out.img.px[q]
              IN  /\ Len(o) = 3
                  /\ \A c \in 1..3 :
                        LET exact == s[4] * s[c] + (255 - s[4]) * 255
                        IN  /\ 2 * (255 * o[c] - exact) <= 255
                            /\ 2 * (exact - 255 * o[c]) <= 255
                  /\ s[4] = 0 => o = White
                  /\ s[4] = 255 => o = <<s[1], s[2], s[3]>>

\* C9 witness: a JPEG export of an image holding a half transparent pixel
\* and a fully transparent pixel whose hidden colour is not white.
C9_Witness ==
    /\ call.fn = "export_image" /\ call.out.format = "JPEG" /\ call.img.mode = "RGBA"
    /\ call.img.size = <<2, 1>>
    /\ call.img.px[<<0, 0>>] = <<10, 200, 30, 128>>
    /\ call.img.px[<<1, 0>>] = <<90, 60, 30, 0>>
    /\ call.out.img.px[<<1, 0>>] = White

\* C10: whenever apply_watermark renders an overlay (text or logo, any
\* angle, any anchor), the overlay has the size of the source and so has
\* the composited result, which is returned without error.
C10_OverlaySize ==
    (call.fn = "apply_watermark" /\ call.layer # << >>) =>
        /\ call.layer[1].size = src.size
        /\ call.out.raised = "none"
        /\ call.out.img.size = src.size

\* C10 witness: a text of 4 x 1 turned by 90 degrees, anchored left of the
\* canvas, on a 2 x 2 source: part of it lands on the canvas, the rest is
\* clipped.
C10_Witness ==
    /\ call.fn = "apply_watermark" /\ call.layer # << >>
    /\ call.cfg.kind = "text" /\ call.cfg.angle_deg = 90 /\ call.cfg.pos = <<-1, 0>>
    /\ call.env.bbox = <<1, 0, 5, 1>> /\ src.size = <<2, 2>>
    /\ \E q \in Positions(src.size) : call.layer[1].px[q] # Transparent
    /\ call.out.img.size = <<2, 2>>

C16_TightCanvas ==
    (call.fn = "apply_watermark" /\ call.n = 1
       /\ call.cfg.kind = "text" /\ call.cfg.text_style # << >>
       /\ call.env.bbox[3] > call.env.bbox[1] /\ call.env.bbox[4] > call.env.bbox[2]) =>
        LET sw == IF call.cfg.text_style[1].stroke
                  THEN call.cfg.text_style[1].stroke_width ELSE 0
        IN  /\ call.canvas[1] = call.env.bbox[3] - call.env.bbox[1] + 2 * sw
            /\ call.canvas[2] = call.env.bbox[4] - call.env.bbox[2] + 2 * sw
            /\ \A q \in call.ink : q \in Positions(call.canvas)

(***************************************************************************)
(* Claims about font resolution, checked under SpecFont.                   *)
(***************************************************************************)
\* the first font of chain that loads, the built-in font when none does
RECURSIVE FirstThatLoads(_, _)
FirstThatLoads(chain, fs) ==
    IF chain = << >> THEN BuiltInFont
    ELSE IF Head(chain) \in fs.loads THEN Head(chain)
    ELSE FirstThatLoads(Tail(chain), fs)

\* C12: font resolution raises nothing and yields the first font that
\* loads of the chain: the user's font path when set, then the system
\* candidates of the platform in their order, then the built-in font; a
\* candidate that fails to load passes on to the next candidate.
C12_FontFallback ==
    call.fn = "_load_font" =>
        /\ call.raised = "none"
        /\ call.font =
              FirstThatLoads((IF Truthy(call.family_path) THEN <<call.family_path>> ELSE << >>)
                             \o Candidates(call.fs.platform), call.fs)


(***************************************************************************)
(* Claims about the style controls and the templates, checked under        *)
(* SpecEditor.                                                             *)
(***************************************************************************)
\* the value a field holds once the value v read for key k was stored in it
Stored(k, v) == IF k \in TupleKeys THEN Tup(v.items) ELSE v

\* C14: loading a stored record with any subset of the known keys (the
\* empty record and a naming sub-record with any subset of its keys
\* included) never raises, sets every field that is present and leaves
\* every absent field at the value it had.
C14_MissingFields ==
    [][lastOp' = "load_tpl" =>
          /\ raised' = "none"
          /\ \A k \in DOMAIN FullTemplate \ {"naming"} :
                collect_state'[k] = IF k \in DOMAIN tpl THEN Stored(k, tpl[k])
                                    ELSE collect_state[k]
          /\ \A k \in {"mode", "prefix", "suffix"} :
                collect_state'.naming[k]
                    = IF "naming" \in DOMAIN tpl /\ k \in DOMAIN tpl.naming
                      THEN tpl.naming[k] ELSE collect_state.naming[k]]_vars

\* the configuration get_cfg builds holds the value every control shows
CfgCarriesControls ==
    IF kind = "text"
    THEN /\ EditorCfg.text = ed.ed_text
         /\ EditorCfg.text_style.color.items[4] = ed.sp_alpha
         /\ EditorCfg.text_style.size = ed.sp_fontsize
         /\ EditorCfg.text_style.bold = ed.ck_bold
         /\ EditorCfg.text_style.italic = ed.ck_italic
         /\ EditorCfg.text_style.stroke = ed.ck_stroke
         /\ EditorCfg.text_style.stroke_width = ed.sp_stroke_w
         /\ EditorCfg.text_style.shadow = ed.ck_shadow
         /\ EditorCfg.text_style.shadow_offset = Tup(<<ed.sp_shadow_dx, ed.sp_shadow_dy>>)
         /\ EditorCfg.angle_deg = ed.sl_angle
    ELSE /\ EditorCfg.image_alpha = ed.sl_img_alpha
         /\ EditorCfg.scale_percent = ed.sp_img_scale
         /\ EditorCfg.angle_deg = ed.sl_angle

\* C15: after any sequence of edits to the controls (text, colour, opacity,
\* font size, stroke on/off and width, shadow on/off and offset, angle,
\* kind, logo opacity and scale) the configuration get_cfg builds carries
\* the current value of every control: an edit made while it does, as it
\* does at start, leaves it doing so.
C15_ControlsInConfig ==
    [][(lastOp' = "edit" /\ CfgCarriesControls) => CfgCarriesControls']_vars

\* C18: applying the record collect_state gives of a state, after a JSON
\* save and load, yields a state whose collect_state is the same: neither
\* the stored values nor the control refresh alter a field.
C18_SnapshotRoundTrip ==
    [][(lastOp' = "load_tpl" /\ tpl = json_round_trip(collect_state)) =>
          collect_state' = collect_state]_vars

\* C18 witness: the angle was edited, the state saved as a template and the
\* template loaded again.
C18_Witness ==
    /\ lastOp = "load_tpl"
    /\ tpl \notin TemplateRecords
    /\ tpl = json_round_trip(collect_state)
    /\ ed.angle = 30 /\ tpl.angle = 30
    /\ tpl.text_color = Lst(<<255, 255, 255, 180>>)

=============================================================================
